---- MODULE Spec2Model ----
(***************************************************************************)
(* SliderCam firmware (Video_slide_stepper.ino): the two-level menu, the   *)
(* digit editors, and motionControl's supervisory loop running against the *)
(* MsTimer2 interrupt handler stepperDriveUsingTimer.                      *)
(*                                                                         *)
(* Target: AVR (8-bit bus, 16-bit int).  The loop's reads of the volatile  *)
(* int currentStep are two byte loads; the timer interrupt may be taken    *)
(* between them.  Time is not modelled: a timer tick may happen whenever   *)
(* the timer is armed, at most MaxTicksPerIter times per loop iteration,   *)
(* so the period passed to MsTimer2::set (pulseDelay) is not part of the   *)
(* state.                                                                  *)
(***************************************************************************)
EXTENDS Integers, Sequences, FiniteSets, TLC

\* ---------------------------------------------------------------- bounds
\* key clicks explored per behaviour
MaxClicks == 5
\* timer ticks that may be delivered during one iteration of the step loop
MaxTicksPerIter == 1
\* the count of shutter sequences saturates here
MaxTrig == 3
\* debounced reads explored in one call of getKeyClick
MaxReads == 6

\* ------------------------------------------------------ program constants
MAX_TRAVEL_DISTANCE == 1300

btnUp == 0
btnDn == 1
btnL == 2
btnR == 3
btnSel == 4
btnNone == 5

MENU_ITEM_DISTANCE == 0
MENU_ITEM_DURATION == 1
MENU_ITEM_STEPS == 2
MENU_ITEM_DIRECTION == 3
MENU_ITEM_GO == 4

NUM_DISTANCE_DIGITS == 4
NUM_DURATION_DIGITS == 6
NUM_STEPS_DIGITS == 4

up_state == 0
timer_done_state == 1
wait_for_up_state == 2

StepsPerMm == 5
dotSteps == 16
ByteRange == 256

\* the octal literals 0100 and 000010 that initialise the committed values
InitialDistanceInt == 64
InitialDurationInt == 8

\* raw readings the button pad delivers while a run is in progress
RawInputs == {btnSel, btnNone}

VARIABLES
  currentMenuItem, currentCursorPos, currentDistance, currentDuration,
  currentSteps, LCDLine2Value, currentChar, currentDistanceInt,
  currentDurationInt, currentStepsInt, travelDir, btnVal,
  prevButton, rawBtn,
  totalMotorSteps, intervalDistance, currentStep, motion, dotDistance,
  prevStep, timerArmed, trigPin, dirPin,
  pc, rdPhase, rdByte, rdHiFirst, rdStart,
  dots, nTrig, trigHere, chkFirst, chkHeld, cancelled, clicks, ticks,
  debounce_fsm_state_var, keyBtnVal, newbtnVal, reads

menuVars == <<currentMenuItem, currentCursorPos, currentDistance,
              currentDuration, currentSteps, LCDLine2Value, currentChar,
              currentDistanceInt, currentDurationInt, currentStepsInt,
              travelDir, btnVal>>
planVars == <<totalMotorSteps, intervalDistance, dotDistance, motion, dirPin>>
readVars == <<rdPhase, rdByte, rdHiFirst, rdStart>>
logVars == <<dots, nTrig, trigHere>>
chkVars == <<chkFirst, chkHeld, cancelled>>
\* getKeyClick's locals and the debounced reads of the call in progress
keyVars == <<debounce_fsm_state_var, keyBtnVal, newbtnVal, reads>>
vars == <<menuVars, prevButton, rawBtn, planVars, currentStep, prevStep,
          timerArmed, trigPin, pc, readVars, logVars, chkVars, clicks, ticks,
          keyVars>>

\* ------------------------------------------------------- pure functions
Min(a, b) == IF a < b THEN a ELSE b

\* 16-bit two's complement int
Wrap16(x) == ((x + 32768) % 65536) - 32768

adjustDigitNoBound(x, d) ==
  IF d = 0 THEN x - 1 ELSE IF d = 1 THEN x + 1 ELSE x

\* adjustDigit: the new digit (also stored in currentChar)
adjustDigit(x, d) ==
  LET x1 == IF d = 0 /\ x > 0 THEN x - 1 ELSE x
  IN  IF d = 1 /\ x1 < 9 THEN x1 + 1 ELSE x1

RECURSIVE DigitsLoop(_, _, _, _)
\* the for loop of getIntFromDigits from index i (0-based) down to 0
DigitsLoop(digits, i, value, power) ==
  IF i < 0 THEN value
  ELSE DigitsLoop(digits, i - 1,
                  Wrap16(value + Wrap16(power * digits[i + 1])),
                  Wrap16(power * 10))

getIntFromDigits(digits, num_digits) ==
  DigitsLoop(digits, num_digits - 1, 0, 1)

ClampDistanceOff(v) == v

\* getDistance's clamp to the travel limit
ClampDistance(v) ==
  IF v > MAX_TRAVEL_DISTANCE THEN MAX_TRAVEL_DISTANCE ELSE v

\* writeToLCDLine2 / readFromLCDLine2: copy the first n entries
CopyDigits(to, from, n) ==
  [i \in 1..Len(to) |-> IF i <= n THEN from[i] ELSE to[i]]

NumDigits(item) ==
  IF item = MENU_ITEM_DISTANCE THEN NUM_DISTANCE_DIGITS
  ELSE IF item = MENU_ITEM_DURATION THEN NUM_DURATION_DIGITS
  ELSE NUM_STEPS_DIGITS

\* the second display line as refreshLCD leaves it
refreshLCD(line, item, dist, dur, stp) ==
  IF item = MENU_ITEM_DISTANCE THEN CopyDigits(line, dist, NUM_DISTANCE_DIGITS)
  ELSE IF item = MENU_ITEM_DURATION THEN CopyDigits(line, dur, NUM_DURATION_DIGITS)
  ELSE IF item = MENU_ITEM_STEPS THEN CopyDigits(line, stp, NUM_STEPS_DIGITS)
  ELSE line

MenuLeft(item) == IF item = MENU_ITEM_DISTANCE THEN item ELSE item - 1

MenuRightNoStop(item) == item + 1

MenuRight(item) == IF item = MENU_ITEM_GO THEN item ELSE item + 1

\* outcomes of (v % d == 0); a zero divisor is undefined behaviour
DivisibleBy(v, d) == IF d = 0 THEN BOOLEAN ELSE {v % d = 0}

Lo(x) == x % ByteRange
Hi(x) == x \div ByteRange

\* ------------------------------------------------------- initial states
\* n as len zero-padded base-10 digits, most significant first
Digits(n, len) ==
  LET Pow10[k \in 0..len] == IF k = 0 THEN 1 ELSE 10 * Pow10[k - 1]
  IN  [i \in 1..len |-> (n \div Pow10[len - i]) % 10]

\* state shared by every initial state: globals as initialised, no run yet
InitRest ==
  /\ currentCursorPos = 0 /\ currentChar = 0 /\ travelDir = 0
  /\ btnVal = btnNone /\ rawBtn = btnNone
  /\ totalMotorSteps = 0 /\ intervalDistance = 0 /\ currentStep = 0
  /\ motion = 0 /\ dotDistance = 0 /\ prevStep = 0
  /\ timerArmed = FALSE /\ trigPin = 0 /\ dirPin = 0
  /\ pc = "top"
  /\ rdPhase = 0 /\ rdByte = 0 /\ rdHiFirst = FALSE /\ rdStart = 0
  /\ dots = 0 /\ nTrig = 0 /\ trigHere = FALSE
  /\ chkFirst = FALSE /\ chkHeld = FALSE /\ cancelled = FALSE
  /\ ticks = 0
  /\ debounce_fsm_state_var = up_state
  /\ keyBtnVal = btnNone /\ newbtnVal = btnNone /\ reads = <<>>

\* power-on: the global initialisers, then setup()
InitPowerOn ==
  /\ currentMenuItem = MENU_ITEM_DISTANCE
  /\ currentDistance = <<0, 1, 0, 0>>
  /\ currentDuration = <<0, 0, 0, 0, 1, 0>>
  /\ currentSteps = <<0, 0, 0, 0>>
  /\ LCDLine2Value = <<0, 1, 0, 0, 0, 0>>
  /\ currentDistanceInt = InitialDistanceInt
  /\ currentDurationInt = InitialDurationInt
  /\ currentStepsInt = 0
  /\ prevButton = btnDn
  /\ clicks = 0
  /\ InitRest

\* the top-level menu at `item` after the operator committed the digit
\* arrays dist, dur, stp in the editors
Configured(item, dist, dur, stp) ==
  /\ currentMenuItem = item
  /\ currentDistance = dist
  /\ currentDuration = dur
  /\ currentSteps = stp
  /\ LCDLine2Value =
       refreshLCD(CopyDigits(dur, stp, NUM_STEPS_DIGITS), item, dist, dur, stp)
  /\ currentDistanceInt =
       Min(getIntFromDigits(dist, NUM_DISTANCE_DIGITS), MAX_TRAVEL_DISTANCE)
  /\ currentDurationInt = getIntFromDigits(dur, NUM_DURATION_DIGITS)
  /\ currentStepsInt = getIntFromDigits(stp, NUM_STEPS_DIGITS)
  /\ prevButton = btnNone
  /\ InitRest

\* committed plans (distance mm, duration s, camera steps) runs start from.
\* Each is reached from power-on by editing the three fields (ending with
\* Down on a digit that is 0, cursor moved back to the first digit) and
\* moving Right to Go, in more clicks than MaxClicks explores; two clicks
\* are explored from there (a run, then a second run or a menu move).
RunConfigs ==
  { <<4, 10, 0>>, <<4, 10, 2>>, <<0, 10, 0>>, <<4, 0, 0>>, <<1, 10, 9>> }

Init ==
  \/ InitPowerOn
  \/ /\ \E c \in RunConfigs :
          Configured(MENU_ITEM_GO, Digits(c[1], NUM_DISTANCE_DIGITS),
                     Digits(c[2], NUM_DURATION_DIGITS),
                     Digits(c[3], NUM_STEPS_DIGITS))
     /\ clicks = MaxClicks - 2

\* committed digit arrays the editors start from (reached from power-on
\* in the same way)
EditDistances == { <<9, 9, 9, 9>>, <<1, 3, 0, 0>>, <<1, 2, 9, 9>> }
EditDurations == { <<0, 0, 0, 0, 1, 0>>, <<9, 0, 0, 0, 0, 9>> }
EditSteps == { <<0, 0, 0, 0>>, <<0, 9, 0, 9>> }

InitEdit ==
  \/ InitPowerOn
  \/ /\ \E item \in MENU_ITEM_DISTANCE..MENU_ITEM_DIRECTION :
        \E dist \in EditDistances : \E dur \in EditDurations :
        \E stp \in EditSteps : Configured(item, dist, dur, stp)
     /\ clicks = 0

\* ---------------------------------------------------------------- menu
InMenu == pc \in {"top", "edit", "dirn"}

runVars == <<planVars, currentStep, prevStep, timerArmed, trigPin, readVars,
             logVars, chkVars, ticks>>

\* getKeyClick returns b: the last reading was btnNone
KeyClick(b) ==
  /\ clicks < MaxClicks
  /\ clicks' = clicks + 1
  /\ btnVal' = b
  /\ prevButton' = btnNone
  /\ rawBtn' = btnNone
  /\ UNCHANGED keyVars

\* processTopLevelMenu, case btnL, then refreshLCD
TopLeft ==
  /\ pc = "top" /\ KeyClick(btnL)
  /\ currentMenuItem' = MenuLeft(currentMenuItem)
  /\ LCDLine2Value' = refreshLCD(LCDLine2Value, currentMenuItem',
                                 currentDistance, currentDuration, currentSteps)
  /\ UNCHANGED <<currentCursorPos, currentDistance, currentDuration,
                 currentSteps, currentChar, currentDistanceInt,
                 currentDurationInt, currentStepsInt, travelDir, pc, runVars>>

\* processTopLevelMenu, case btnR, then refreshLCD
TopRight ==
  /\ pc = "top" /\ KeyClick(btnR)
  /\ currentMenuItem' = MenuRight(currentMenuItem)
  /\ LCDLine2Value' = refreshLCD(LCDLine2Value, currentMenuItem',
                                 currentDistance, currentDuration, currentSteps)
  /\ UNCHANGED <<currentCursorPos, currentDistance, currentDuration,
                 currentSteps, currentChar, currentDistanceInt,
                 currentDurationInt, currentStepsInt, travelDir, pc, runVars>>

\* processTopLevelMenu, Up or Down: no case, refreshLCD only
TopIgnored ==
  /\ pc = "top"
  /\ \E b \in {btnUp, btnDn} : KeyClick(b)
  /\ LCDLine2Value' = refreshLCD(LCDLine2Value, currentMenuItem,
                                 currentDistance, currentDuration, currentSteps)
  /\ UNCHANGED <<currentMenuItem, currentCursorPos, currentDistance,
                 currentDuration, currentSteps, currentChar, currentDistanceInt,
                 currentDurationInt, currentStepsInt, travelDir, pc, runVars>>

\* Select on Distance, Duration or Steps: processSecondaryLevelMenu up to
\* the editor's first getKeyClick
TopSelectEdit ==
  /\ pc = "top" /\ KeyClick(btnSel)
  /\ currentMenuItem \in {MENU_ITEM_DISTANCE, MENU_ITEM_DURATION, MENU_ITEM_STEPS}
  /\ currentCursorPos' = 0
  /\ LCDLine2Value' = refreshLCD(LCDLine2Value, currentMenuItem,
                                 currentDistance, currentDuration, currentSteps)
  /\ pc' = "edit"
  /\ UNCHANGED <<currentMenuItem, currentDistance, currentDuration,
                 currentSteps, currentChar, currentDistanceInt,
                 currentDurationInt, currentStepsInt, travelDir, runVars>>

\* Select on Direction: processSecondaryLevelMenu up to getDirection's
\* first getKeyClick
TopSelectDirection ==
  /\ pc = "top" /\ KeyClick(btnSel)
  /\ currentMenuItem = MENU_ITEM_DIRECTION
  /\ currentCursorPos' = 0
  /\ pc' = "dirn"
  /\ UNCHANGED <<currentMenuItem, currentDistance, currentDuration,
                 currentSteps, LCDLine2Value, currentChar, currentDistanceInt,
                 currentDurationInt, currentStepsInt, travelDir, runVars>>

\* ------------------------------------------------------- digit editors
CursorLeft(cur) == IF cur = 0 THEN cur ELSE cur - 1

CursorRightNoStop(cur, numDigits) == cur + 1

CursorRight(cur, numDigits) == IF cur = numDigits - 1 THEN cur ELSE cur + 1

editFrame == <<currentMenuItem, currentDistance, currentDuration,
               currentSteps, currentDistanceInt, currentDurationInt,
               currentStepsInt, travelDir, pc, runVars>>

\* getUserInputValue, case btnUp
EditUp ==
  /\ pc = "edit" /\ KeyClick(btnUp)
  /\ currentChar' = adjustDigit(LCDLine2Value[currentCursorPos + 1], 1)
  /\ LCDLine2Value' =
       [LCDLine2Value EXCEPT ![currentCursorPos + 1] = currentChar']
  /\ UNCHANGED <<currentCursorPos, editFrame>>

\* getUserInputValue, case btnDn
EditDown ==
  /\ pc = "edit" /\ KeyClick(btnDn)
  /\ currentChar' = adjustDigit(LCDLine2Value[currentCursorPos + 1], 0)
  /\ LCDLine2Value' =
       [LCDLine2Value EXCEPT ![currentCursorPos + 1] = currentChar']
  /\ UNCHANGED <<currentCursorPos, editFrame>>

\* getUserInputValue, case btnL
EditLeft ==
  /\ pc = "edit" /\ KeyClick(btnL)
  /\ currentCursorPos' = CursorLeft(currentCursorPos)
  /\ UNCHANGED <<LCDLine2Value, currentChar, editFrame>>

\* getUserInputValue, case btnR
EditRight ==
  /\ pc = "edit" /\ KeyClick(btnR)
  /\ currentCursorPos' = CursorRight(currentCursorPos, NumDigits(currentMenuItem))
  /\ UNCHANGED <<LCDLine2Value, currentChar, editFrame>>

\* getDistance after the editor returns, then the two refreshLCD calls
CommitDistance ==
  /\ pc = "edit" /\ KeyClick(btnSel)
  /\ currentMenuItem = MENU_ITEM_DISTANCE
  /\ currentDistance' =
       CopyDigits(currentDistance, LCDLine2Value, NUM_DISTANCE_DIGITS)
  /\ currentDistanceInt' =
       ClampDistance(getIntFromDigits(currentDistance', NUM_DISTANCE_DIGITS))
  /\ LCDLine2Value' = refreshLCD(LCDLine2Value, currentMenuItem,
                                 currentDistance', currentDuration, currentSteps)
  /\ pc' = "top"
  /\ UNCHANGED <<currentMenuItem, currentCursorPos, currentDuration,
                 currentSteps, currentChar, currentDurationInt,
                 currentStepsInt, travelDir, runVars>>

\* getDuration after the editor returns, then the two refreshLCD calls
CommitDuration ==
  /\ pc = "edit" /\ KeyClick(btnSel)
  /\ currentMenuItem = MENU_ITEM_DURATION
  /\ currentDuration' =
       CopyDigits(currentDuration, LCDLine2Value, NUM_DURATION_DIGITS)
  /\ currentDurationInt' = getIntFromDigits(currentDuration', NUM_DURATION_DIGITS)
  /\ LCDLine2Value' = refreshLCD(LCDLine2Value, currentMenuItem,
                                 currentDistance, currentDuration', currentSteps)
  /\ pc' = "top"
  /\ UNCHANGED <<currentMenuItem, currentCursorPos, currentDistance,
                 currentSteps, currentChar, currentDistanceInt,
                 currentStepsInt, travelDir, runVars>>

\* getSteps after the editor returns, then the two refreshLCD calls
CommitSteps ==
  /\ pc = "edit" /\ KeyClick(btnSel)
  /\ currentMenuItem = MENU_ITEM_STEPS
  /\ currentSteps' = CopyDigits(currentSteps, LCDLine2Value, NUM_STEPS_DIGITS)
  /\ currentStepsInt' = getIntFromDigits(currentSteps', NUM_STEPS_DIGITS)
  /\ LCDLine2Value' = refreshLCD(LCDLine2Value, currentMenuItem,
                                 currentDistance, currentDuration, currentSteps')
  /\ pc' = "top"
  /\ UNCHANGED <<currentMenuItem, currentCursorPos, currentDistance,
                 currentDuration, currentChar, currentDistanceInt,
                 currentDurationInt, travelDir, runVars>>

dirFrame == <<currentMenuItem, currentCursorPos, currentDistance,
              currentDuration, currentSteps, LCDLine2Value, currentChar,
              currentDistanceInt, currentDurationInt, currentStepsInt, runVars>>

\* getDirection, case btnUp
DirectionUp ==
  /\ pc = "dirn" /\ KeyClick(btnUp)
  /\ travelDir' = 1
  /\ UNCHANGED <<pc, dirFrame>>

\* getDirection, case btnDn
DirectionDown ==
  /\ pc = "dirn" /\ KeyClick(btnDn)
  /\ travelDir' = 0
  /\ UNCHANGED <<pc, dirFrame>>

\* getDirection, Left or Right: ignored
DirectionIgnored ==
  /\ pc = "dirn"
  /\ \E b \in {btnL, btnR} : KeyClick(b)
  /\ UNCHANGED <<travelDir, pc, dirFrame>>

\* getDirection, case btnSel: back to the top level
DirectionSelect ==
  /\ pc = "dirn" /\ KeyClick(btnSel)
  /\ pc' = "top"
  /\ UNCHANGED <<travelDir, dirFrame>>

\* ------------------------------------------------------- motionControl
\* positions inside the do-while loop of motionControl
LoopPcs == {"chk", "chk2", "trg", "tStop", "tHigh", "tLow", "tStart",
            "cmp", "asg", "dot", "whl"}
\* positions inside motionControl
RunPcs == LoopPcs \cup {"stop"}
\* positions that start with a read of the volatile int currentStep
ReadPcs == {"trg", "cmp", "asg", "dot", "whl"}

menuFrame == <<currentMenuItem, currentDistance, currentDuration,
               currentSteps, LCDLine2Value, currentChar, currentDistanceInt,
               currentDurationInt, currentStepsInt, travelDir>>

\* Select on Go: processSecondaryLevelMenu, getGo, and motionControl up to
\* the first iteration of the step loop (the timer is armed on the way)
TopSelectGo ==
  /\ pc = "top" /\ KeyClick(btnSel)
  /\ currentMenuItem = MENU_ITEM_GO
  /\ currentCursorPos' = 0
  /\ motion' = 1
  /\ currentStep' = 0
  /\ totalMotorSteps' = currentDistanceInt * StepsPerMm
  /\ intervalDistance' = IF currentStepsInt > 0
                           THEN totalMotorSteps' \div currentStepsInt
                           ELSE intervalDistance
  /\ dotDistance' = totalMotorSteps' \div dotSteps
  /\ dirPin' = IF travelDir = 0 THEN 0 ELSE IF travelDir = 1 THEN 1 ELSE dirPin
  /\ timerArmed' = TRUE
  /\ prevStep' = 0
  /\ pc' = "chk"
  /\ dots' = 0 /\ nTrig' = 0 /\ trigHere' = FALSE
  /\ chkFirst' = FALSE /\ chkHeld' = FALSE /\ cancelled' = FALSE
  /\ ticks' = 0
  /\ UNCHANGED <<menuFrame, trigPin, readVars>>

\* stepperDriveUsingTimer: the MsTimer2 interrupt handler
Tick ==
  /\ timerArmed
  /\ ticks < MaxTicksPerIter
  /\ currentStep' = Wrap16(currentStep + 1)
  /\ ticks' = ticks + 1
  /\ trigHere' = FALSE
  /\ UNCHANGED <<menuVars, prevButton, rawBtn, planVars, prevStep, timerArmed,
                 trigPin, pc, readVars, dots, nTrig, chkVars, clicks, keyVars>>

\* the operator presses or releases a button during the run
RawChange ==
  /\ pc \in RunPcs
  /\ \E b \in RawInputs \ {rawBtn} : rawBtn' = b
  /\ UNCHANGED <<menuVars, prevButton, planVars, currentStep, prevStep,
                 timerArmed, trigPin, pc, readVars, logVars, chkVars, clicks,
                 ticks, keyVars>>

\* line 235: the value readLcdButtons returned is btnSel
IsUserStop(b) == b = btnSel

BreakReturns == "top"

\* where the break of line 235 continues: after the loop
BreakTarget == "stop"

SettledReadingStale(prev, reading) == prev

\* readLcdButtons, else branch: the value returned after the settle delay
SettledReading(prev, reading) == reading

loopFrame == <<menuVars, planVars, currentStep, prevStep, timerArmed,
               trigPin, logVars, clicks, keyVars>>

\* line 235, readLcdButtons: first reading; it equals prevButton, or the
\* settle delay starts
CancelCheck ==
  /\ pc = "chk"
  /\ ticks' = 0
  /\ IF rawBtn = prevButton
       THEN /\ chkFirst' = FALSE
            /\ chkHeld' = (rawBtn = btnSel)
            /\ cancelled' = IsUserStop(prevButton)
            /\ pc' = IF IsUserStop(prevButton) THEN BreakTarget ELSE "trg"
       ELSE /\ chkFirst' = (rawBtn = btnSel)
            /\ chkHeld' = FALSE
            /\ cancelled' = FALSE
            /\ pc' = "chk2"
  /\ UNCHANGED <<loopFrame, prevButton, rawBtn, readVars>>

\* line 235, readLcdButtons: second reading after delay(DEBOUNCE_TIME)
CancelCheckSettled ==
  /\ pc = "chk2"
  /\ prevButton' = rawBtn
  /\ chkFirst' = FALSE
  /\ chkHeld' = (chkFirst /\ rawBtn = btnSel)
  /\ cancelled' = IsUserStop(SettledReading(prevButton, rawBtn))
  /\ pc' = IF cancelled' THEN BreakTarget ELSE "trg"
  /\ UNCHANGED <<loopFrame, rawBtn, readVars, ticks>>

\* line 240 in video mode: currentStepsInt > 0 is false, nothing is read
ShutterSkip ==
  /\ pc = "trg" /\ rdPhase = 0
  /\ ~(currentStepsInt > 0)
  /\ pc' = "cmp"
  /\ UNCHANGED <<loopFrame, prevButton, rawBtn, readVars, chkVars, ticks>>

\* first byte load of a read of currentStep (either byte order)
ReadBegin ==
  /\ pc \in ReadPcs /\ rdPhase = 0
  /\ pc = "trg" => currentStepsInt > 0
  /\ \E hiFirst \in BOOLEAN :
       /\ rdHiFirst' = hiFirst
       /\ rdByte' = IF hiFirst THEN Hi(currentStep) ELSE Lo(currentStep)
  /\ rdPhase' = 1
  /\ rdStart' = currentStep
  /\ UNCHANGED <<loopFrame, prevButton, rawBtn, pc, chkVars, ticks>>

\* the int the second byte load completes
ReadValue ==
  IF rdHiFirst THEN rdByte * ByteRange + Lo(currentStep)
  ELSE Hi(currentStep) * ByteRange + rdByte

\* the second byte load: the loop has observed ReadValue
ReadEnd ==
  /\ rdPhase = 1
  /\ rdPhase' = 0
  /\ rdByte' = 0 /\ rdHiFirst' = FALSE /\ rdStart' = 0

\* line 240: currentStep % intervalDistance == 0
ShutterTest ==
  /\ pc = "trg" /\ ReadEnd
  /\ \E r \in DivisibleBy(ReadValue, intervalDistance) :
       pc' = IF r THEN "tStop" ELSE "cmp"
  /\ UNCHANGED <<loopFrame, prevButton, rawBtn, chkVars, ticks>>

ShutterStopTimerRuns ==
  /\ pc = "tStop"
  /\ nTrig' = Min(nTrig + 1, MaxTrig)
  /\ trigHere' = TRUE
  /\ pc' = "tHigh"
  /\ UNCHANGED <<menuVars, prevButton, rawBtn, planVars, currentStep,
                 prevStep, timerArmed, trigPin, readVars, dots, chkVars,
                 clicks, ticks, keyVars>>

\* lines 241-242: MsTimer2::stop(); delay(20)
ShutterStop ==
  /\ pc = "tStop"
  /\ timerArmed' = FALSE
  /\ nTrig' = Min(nTrig + 1, MaxTrig)
  /\ trigHere' = TRUE
  /\ pc' = "tHigh"
  /\ UNCHANGED <<menuVars, prevButton, rawBtn, planVars, currentStep,
                 prevStep, trigPin, readVars, dots, chkVars, clicks, ticks,
                 keyVars>>

\* lines 243-244: trigger HIGH; delay(80)
ShutterHigh ==
  /\ pc = "tHigh"
  /\ trigPin' = 1
  /\ pc' = "tLow"
  /\ UNCHANGED <<menuVars, prevButton, rawBtn, planVars, currentStep,
                 prevStep, timerArmed, readVars, logVars, chkVars, clicks,
                 ticks, keyVars>>

\* lines 245-246: trigger LOW; delay for the rest of shutterDuration
ShutterLow ==
  /\ pc = "tLow"
  /\ trigPin' = 0
  /\ pc' = "tStart"
  /\ UNCHANGED <<menuVars, prevButton, rawBtn, planVars, currentStep,
                 prevStep, timerArmed, readVars, logVars, chkVars, clicks,
                 ticks, keyVars>>

\* line 247: MsTimer2::start()
ShutterResume ==
  /\ pc = "tStart"
  /\ timerArmed' = TRUE
  /\ pc' = "cmp"
  /\ UNCHANGED <<menuVars, prevButton, rawBtn, planVars, currentStep,
                 prevStep, trigPin, readVars, logVars, chkVars, clicks, ticks,
                 keyVars>>

\* line 250: currentStep != prevStep
ChangeTest ==
  /\ pc = "cmp" /\ ReadEnd
  /\ pc' = IF ReadValue # prevStep THEN "asg" ELSE "whl"
  /\ UNCHANGED <<loopFrame, prevButton, rawBtn, chkVars, ticks>>

\* line 251: prevStep = currentStep
StoreStep ==
  /\ pc = "asg" /\ ReadEnd
  /\ prevStep' = ReadValue
  /\ pc' = "dot"
  /\ UNCHANGED <<menuVars, planVars, currentStep, timerArmed, trigPin,
                 logVars, clicks, prevButton, rawBtn, chkVars, ticks, keyVars>>

\* lines 253-255: a progress dot when currentStep % dotDistance == 0
DotTest ==
  /\ pc = "dot" /\ ReadEnd
  /\ \E r \in DivisibleBy(ReadValue, dotDistance) :
       dots' = IF r THEN dots + 1 ELSE dots
  /\ pc' = "whl"
  /\ UNCHANGED <<menuVars, planVars, currentStep, prevStep, timerArmed,
                 trigPin, nTrig, trigHere, clicks, prevButton, rawBtn,
                 chkVars, ticks, keyVars>>

\* line 258: while (currentStep < totalMotorSteps)
WhileTest ==
  /\ pc = "whl" /\ ReadEnd
  /\ pc' = IF ReadValue < totalMotorSteps THEN "chk" ELSE "stop"
  /\ UNCHANGED <<loopFrame, prevButton, rawBtn, chkVars, ticks>>

\* line 259 and the returns: MsTimer2::stop(), getGo's delay, the refreshLCD
\* calls of the two menu levels (the display is cleared; the local prevStep
\* and the record of the run end with the call)
RunEnd ==
  /\ pc = "stop"
  /\ timerArmed' = FALSE
  /\ LCDLine2Value' = refreshLCD(LCDLine2Value, currentMenuItem,
                                 currentDistance, currentDuration, currentSteps)
  /\ pc' = "top"
  /\ prevStep' = 0 /\ ticks' = 0
  /\ dots' = 0 /\ nTrig' = 0 /\ trigHere' = FALSE
  /\ chkFirst' = FALSE /\ chkHeld' = FALSE /\ cancelled' = FALSE
  /\ UNCHANGED <<currentMenuItem, currentCursorPos, currentDistance,
                 currentDuration, currentSteps, currentChar,
                 currentDistanceInt, currentDurationInt, currentStepsInt,
                 travelDir, btnVal, prevButton, rawBtn, planVars, currentStep,
                 trigPin, readVars, clicks, keyVars>>

\* ---------------------------------------------------------- getKeyClick
\* raw readings the button pad delivers while a key click is awaited
KeyInputs == {btnUp, btnSel, btnNone}

\* positions inside getKeyClick: before a readLcdButtons call, and inside
\* the settle delay of that call
KeyPcs == {"key", "key2"}

keyFrame == <<menuFrame, currentCursorPos, runVars>>

PressConfirmedAny(new, old) == new # btnNone

\* line 111: the second read confirms the press
PressConfirmed(new, old) == new = old

\* a menu loop calls getKeyClick (line 99)
KeyCall ==
  /\ pc = "top"
  /\ clicks < MaxClicks
  /\ pc' = "key"
  /\ debounce_fsm_state_var' = up_state
  /\ reads' = <<>>
  /\ UNCHANGED <<keyBtnVal, newbtnVal, btnVal, clicks, prevButton, rawBtn,
                 keyFrame>>

\* one pass of the switch of getKeyClick, readLcdButtons having returned v
KeyStep(v) ==
  /\ reads' = Append(reads, v)
  /\ IF debounce_fsm_state_var = up_state
       THEN /\ keyBtnVal' = v
            /\ debounce_fsm_state_var' =
                 IF v # btnNone THEN timer_done_state ELSE up_state
            /\ pc' = "key"
            /\ UNCHANGED <<newbtnVal, btnVal, clicks>>
     ELSE IF debounce_fsm_state_var = timer_done_state
       THEN /\ newbtnVal' = v
            /\ debounce_fsm_state_var' =
                 IF PressConfirmed(v, keyBtnVal) THEN wait_for_up_state
                 ELSE up_state
            /\ pc' = "key"
            /\ UNCHANGED <<keyBtnVal, btnVal, clicks>>
     ELSE /\ newbtnVal' = v
          /\ IF v = btnNone
               THEN /\ btnVal' = keyBtnVal
                    /\ clicks' = clicks + 1
                    /\ pc' = "top"
                    /\ UNCHANGED debounce_fsm_state_var
               ELSE /\ debounce_fsm_state_var' =
                         IF v # keyBtnVal THEN up_state ELSE wait_for_up_state
                    /\ pc' = "key"
                    /\ UNCHANGED <<btnVal, clicks>>
          /\ UNCHANGED keyBtnVal

\* readLcdButtons inside getKeyClick: the first raw reading; it equals
\* prevButton and is returned, or the settle delay starts
KeyRead ==
  /\ pc = "key"
  /\ Len(reads) < MaxReads
  /\ \E r \in KeyInputs :
       /\ rawBtn' = r
       /\ IF r = prevButton
            THEN KeyStep(prevButton)
            ELSE /\ pc' = "key2"
                 /\ UNCHANGED <<keyVars, btnVal, clicks>>
  /\ UNCHANGED <<prevButton, keyFrame>>

\* readLcdButtons inside getKeyClick: the reading after delay(DEBOUNCE_TIME)
KeyReadSettled ==
  /\ pc = "key2"
  /\ \E r \in KeyInputs :
       /\ rawBtn' = r
       /\ prevButton' = r
       /\ KeyStep(SettledReading(prevButton, r))
  /\ UNCHANGED keyFrame

\* ------------------------------------------------------- specifications
NextKeys == KeyCall \/ KeyRead \/ KeyReadSettled

\* getKeyClick called again and again from power-on
SpecKeys == InitPowerOn /\ [][NextKeys]_vars

NextEdit ==
  \/ TopLeft \/ TopRight \/ TopIgnored \/ TopSelectEdit \/ TopSelectDirection
  \/ EditUp \/ EditDown \/ EditLeft \/ EditRight
  \/ CommitDistance \/ CommitDuration \/ CommitSteps
  \/ DirectionUp \/ DirectionDown \/ DirectionIgnored \/ DirectionSelect

NextRun ==
  \/ TopSelectGo \/ Tick \/ RawChange
  \/ CancelCheck \/ CancelCheckSettled
  \/ ShutterSkip \/ ReadBegin \/ ShutterTest
  \/ ShutterStop \/ ShutterHigh \/ ShutterLow \/ ShutterResume
  \/ ChangeTest \/ StoreStep \/ DotTest \/ WhileTest \/ RunEnd

Next == NextEdit \/ NextRun

\* the firmware from power-on or from a committed plan at the Go item
Spec == Init /\ [][Next]_vars

\* the menu and the editors from committed digit arrays; no run is started
SpecEdit == InitEdit /\ [][NextEdit]_vars

\* time-lapse plans (steps > 0, intervalDistance >= 1) committed at Go
LiveConfigs == { <<4, 10, 2>>, <<4, 10, 4>> }

InitLive ==
  /\ \E c \in LiveConfigs :
       Configured(MENU_ITEM_GO, Digits(c[1], NUM_DISTANCE_DIGITS),
                  Digits(c[2], NUM_DURATION_DIGITS),
                  Digits(c[3], NUM_STEPS_DIGITS))
  /\ clicks = MaxClicks - 2

\* the steps of the supervisory loop while no button is touched
LoopStep ==
  \/ CancelCheck \/ ReadBegin \/ ShutterTest
  \/ ShutterStop \/ ShutterHigh \/ ShutterLow \/ ShutterResume
  \/ ChangeTest \/ StoreStep \/ DotTest \/ WhileTest \/ RunEnd

NextLive == TopSelectGo \/ Tick \/ LoopStep

\* time-lapse runs in which Select is never pressed: the timer interrupt is
\* taken if it stays pending, and the loop keeps running
SpecLive ==
  InitLive /\ [][NextLive]_vars /\ WF_vars(Tick) /\ WF_vars(LoopStep)

\* ------------------------------------------------------------- claims
ShutterPcs == {"tHigh", "tLow", "tStart"}

\* the run reached line 259 through the while condition, not the break
Completed == pc = "stop" /\ ~cancelled

\* C1: in an uncancelled time-lapse run whose steps divide totalMotorSteps,
\* the shutter sequence runs only at counter values k * intervalDistance,
\* k = 1..steps, and exactly `steps` times by the end of the run.
C1_ShutterAtEachInterval ==
  (/\ pc \in RunPcs
   /\ currentStepsInt > 0
   /\ intervalDistance > 0
   /\ totalMotorSteps % currentStepsInt = 0)
  => /\ pc \in ShutterPcs =>
          \E k \in 1..currentStepsInt : currentStep = k * intervalDistance
     /\ Completed => nTrig = currentStepsInt

\* C2: a cancellation check that reads Select at each of its raw readings
\* leaves the step loop at once (no later check runs with Select held), and
\* the run ends whatever currentStep is.
C2_CancelWithinOneIteration ==
  chkHeld => (pc = "stop" /\ cancelled)

\* a run cancelled part-way: Select was held through a check, the loop is
\* left, and the counter is short of totalMotorSteps
C2_Witness ==
  /\ chkHeld /\ pc = "stop" /\ cancelled
  /\ currentStep > 0 /\ currentStep < totalMotorSteps

\* C3: for every admissible distance an uncancelled run prints exactly
\* dotSteps progress dots, and never more than dotSteps.
C3_SixteenDots ==
  (pc \in RunPcs /\ currentDistanceInt \in 1..MAX_TRAVEL_DISTANCE)
  => /\ dots <= dotSteps
     /\ Completed => dots = dotSteps

\* C4: in video mode no shutter sequence occurs (trigger never HIGH, timer
\* never paused inside the loop) and an uncancelled run ends when
\* currentStep has reached totalMotorSteps = 5 * distance.
C4_VideoMode ==
  (pc \in RunPcs /\ currentStepsInt = 0)
  => /\ trigPin = 0 /\ nTrig = 0
     /\ pc \in LoopPcs => timerArmed
     /\ totalMotorSteps = StepsPerMm * currentDistanceInt
     /\ Completed => currentStep >= totalMotorSteps

\* C5: with duration 0 or distance 0 committed, Go does not start a run: the
\* timer is never armed and control stays in the menu.
C5_DegenerateRefused ==
  (currentDurationInt = 0 \/ currentDistanceInt = 0)
  => (~timerArmed /\ InMenu)

\* C6: outside motionControl the timer is not armed, and currentStep does
\* not change while control stays in the menus.
C6_TimerStoppedOutsideRun ==
  /\ InMenu => ~timerArmed
  /\ [][/\ InMenu' => ~timerArmed'
        /\ (InMenu /\ InMenu') => currentStep' = currentStep]_vars

\* back in the menu after a run that was cancelled part-way
C6_Witness ==
  /\ pc = "top" /\ motion = 1 /\ prevButton = btnSel
  /\ currentStep > 0 /\ currentStep < totalMotorSteps
  /\ ~timerArmed

\* C7: every value the loop reads from currentStep is a value the counter
\* held between the first and the second byte load of that read.
C7_NoTornRead ==
  [][(rdPhase = 1 /\ rdPhase' = 0)
       => (rdStart <= ReadValue /\ ReadValue <= currentStep)]_vars

\* base-10 value of a 4-digit array, most significant digit first
Decode4(d) == 1000 * d[1] + 100 * d[2] + 10 * d[3] + d[4]

\* C8: the committed distance never exceeds MAX_TRAVEL_DISTANCE, and it is
\* exactly MAX_TRAVEL_DISTANCE whenever the committed digits decode to more.
C8_DistanceClamp ==
  /\ currentDistanceInt <= MAX_TRAVEL_DISTANCE
  /\ Decode4(currentDistance) > MAX_TRAVEL_DISTANCE
       => currentDistanceInt = MAX_TRAVEL_DISTANCE

\* 2100 was entered from the power-on digits 0100 and committed
C8_Witness ==
  /\ pc = "top" /\ btnVal = btnSel
  /\ currentDistance = <<2, 1, 0, 0>>
  /\ currentDistanceInt = MAX_TRAVEL_DISTANCE

DigitsInRange ==
  /\ \A i \in 1..Len(LCDLine2Value) : LCDLine2Value[i] \in 0..9
  /\ \A i \in 1..Len(currentDistance) : currentDistance[i] \in 0..9
  /\ \A i \in 1..Len(currentDuration) : currentDuration[i] \in 0..9
  /\ \A i \in 1..Len(currentSteps) : currentSteps[i] \in 0..9

\* C9: every digit stays in 0..9; in the editor Up on a 9 and Down on a 0
\* leave the digit unchanged, and only the digit under the cursor changes.
C9_DigitsStayInRange ==
  /\ DigitsInRange
  /\ [][/\ DigitsInRange'
        /\ (pc = "edit" /\ pc' = "edit") =>
             LET cur == currentCursorPos + 1 IN
             /\ \A i \in 1..Len(LCDLine2Value) :
                  i # cur => LCDLine2Value'[i] = LCDLine2Value[i]
             /\ (btnVal' = btnUp /\ LCDLine2Value[cur] = 9)
                  => LCDLine2Value'[cur] = 9
             /\ (btnVal' = btnDn /\ LCDLine2Value[cur] = 0)
                  => LCDLine2Value'[cur] = 0]_vars

\* the editor was entered on 9999 and Up was clicked on the leading 9
C9_Witness ==
  /\ pc = "edit" /\ clicks = 2 /\ btnVal = btnUp
  /\ currentCursorPos = 0 /\ LCDLine2Value[1] = 9

MenuItems == MENU_ITEM_DISTANCE..MENU_ITEM_GO

\* C10: currentMenuItem stays in Distance..Go; a Left or Right click at the
\* top level moves it by one towards that side, not past Distance or Go,
\* and nothing else changes it (editors and runs return to the same item).
C10_MenuPositionClamped ==
  /\ currentMenuItem \in MenuItems
  /\ [][/\ currentMenuItem' \in MenuItems
        /\ IF pc = "top" /\ pc' = "top" /\ clicks' # clicks /\ btnVal' = btnL
             THEN currentMenuItem' =
                    IF currentMenuItem = MENU_ITEM_DISTANCE
                      THEN MENU_ITEM_DISTANCE ELSE currentMenuItem - 1
           ELSE IF pc = "top" /\ pc' = "top" /\ clicks' # clicks
                   /\ btnVal' = btnR
             THEN currentMenuItem' =
                    IF currentMenuItem = MENU_ITEM_GO
                      THEN MENU_ITEM_GO ELSE currentMenuItem + 1
           ELSE currentMenuItem' = currentMenuItem]_vars

\* Right was clicked at Go after a run had returned there
C10_Witness ==
  /\ pc = "top" /\ btnVal = btnR /\ motion = 1
  /\ currentMenuItem = MENU_ITEM_GO

\* C11: whenever an editor commits, the int getIntFromDigits returned for
\* the committed digit array D (4 digits for distance and steps, 6 for
\* duration), written back as that many zero-padded base-10 digits, is D.
C11_DecodeRoundTrip ==
  [][(pc = "edit" /\ pc' = "top") =>
       /\ currentMenuItem = MENU_ITEM_DISTANCE =>
            Digits(getIntFromDigits(currentDistance', NUM_DISTANCE_DIGITS),
                   NUM_DISTANCE_DIGITS) = currentDistance'
       /\ currentMenuItem = MENU_ITEM_DURATION =>
            Digits(currentDurationInt', NUM_DURATION_DIGITS) = currentDuration'
       /\ currentMenuItem = MENU_ITEM_STEPS =>
            Digits(currentStepsInt', NUM_STEPS_DIGITS) = currentSteps']_vars

\* the last debounced read of the call in progress
LastRead == reads[Len(reads)]

\* in timer_done_state the last read is the pressed button; in
\* wait_for_up_state the last two reads are
PressTracked ==
  /\ (pc \in KeyPcs /\ debounce_fsm_state_var = timer_done_state) =>
       /\ Len(reads) >= 1
       /\ keyBtnVal # btnNone /\ LastRead = keyBtnVal
  /\ (pc \in KeyPcs /\ debounce_fsm_state_var = wait_for_up_state) =>
       /\ Len(reads) >= 2
       /\ keyBtnVal # btnNone /\ LastRead = keyBtnVal
       /\ reads[Len(reads) - 1] = keyBtnVal

\* C12: getKeyClick returns only a button b other than btnNone whose last
\* debounced reads were b, b (press confirmed), b any number of times, then
\* btnNone, and it returns on that btnNone read; a read that differs from b
\* during confirmation, or differs from b and btnNone while waiting for the
\* release, puts the state machine back to up_state without returning.
C12_KeyClickDebounced ==
  /\ PressTracked
  /\ [][/\ PressTracked'
        /\ (pc \in KeyPcs /\ pc' = "top") =>
             LET n == Len(reads') IN
             /\ btnVal' # btnNone
             /\ n >= 3
             /\ reads'[n] = btnNone
             /\ reads'[n - 1] = btnVal' /\ reads'[n - 2] = btnVal'
             /\ debounce_fsm_state_var = wait_for_up_state
        /\ (/\ pc \in KeyPcs /\ reads' # reads
            /\ \/ /\ debounce_fsm_state_var = timer_done_state
                  /\ reads'[Len(reads')] # keyBtnVal
               \/ /\ debounce_fsm_state_var = wait_for_up_state
                  /\ reads'[Len(reads')] \notin {keyBtnVal, btnNone})
           => (debounce_fsm_state_var' = up_state /\ pc' = "key")]_vars

\* Select was clicked after an Up press that was not confirmed
C12_Witness ==
  /\ pc = "top" /\ btnVal = btnSel
  /\ reads = <<btnUp, btnSel, btnSel, btnSel, btnNone>>

\* between MsTimer2::stop() and MsTimer2::start() of the shutter sequence
TimerPaused == pc \in ShutterPcs => ~timerArmed

\* C13: from the timer stop to the timer restart of a shutter sequence the
\* timer is not armed and currentStep does not change; the trigger line goes
\* HIGH then LOW, and the sequence is left only through the restart, with
\* the trigger LOW and the timer armed.
C13_TimerPausedDuringShutter ==
  /\ TimerPaused
  /\ [][/\ TimerPaused'
        /\ pc \in ShutterPcs => currentStep' = currentStep
        /\ (pc = "tHigh" /\ pc' # pc) => (pc' = "tLow" /\ trigPin' = 1)
        /\ (pc = "tLow" /\ pc' # pc) => (pc' = "tStart" /\ trigPin' = 0)
        /\ (pc = "tStart" /\ pc' # pc) =>
             (pc' = "cmp" /\ trigPin' = 0 /\ timerArmed')]_vars

\* a shutter sequence taken at a counter value above 0 has just restarted
\* the timer
C13_Witness ==
  /\ pc = "cmp" /\ timerArmed /\ trigPin = 0
  /\ trigHere /\ currentStep > 0

\* C14: a shutter sequence never starts at a counter value at which a
\* sequence of the same run has already been taken, so between two
\* consecutive sequences the counter has increased.
C14_ShutterOncePerMultiple ==
  [][(pc = "tStop" /\ pc' = "tHigh") => ~trigHere]_vars

\* C15: in a time-lapse run intervalDistance is at least 1 whenever line 240
\* evaluates currentStep % intervalDistance.
C15_IntervalGuard ==
  (pc = "trg" /\ currentStepsInt > 0) => intervalDistance >= 1

\* C16: a time-lapse run in which Select is never pressed eventually has
\* currentStep >= totalMotorSteps, has left the loop and is back at the top
\* level of the menu.
C16_RunCompletes ==
  (pc \in LoopPcs) ~> (pc = "top" /\ currentStep >= totalMotorSteps)

CursorInField ==
  pc = "edit" => currentCursorPos \in 0..(NumDigits(currentMenuItem) - 1)

\* C17: an editor is entered with the cursor at 0, and while an N-digit field
\* is edited the cursor stays in 0..N-1: Left at 0 and Right at N-1 leave it
\* where it is, any other Left or Right moves it by one.
C17_CursorInsideField ==
  /\ CursorInField
  /\ [][/\ CursorInField'
        /\ (pc # "edit" /\ pc' = "edit") => currentCursorPos' = 0
        /\ (pc = "edit" /\ pc' = "edit" /\ btnVal' = btnL) =>
             currentCursorPos' =
               IF currentCursorPos = 0 THEN 0 ELSE currentCursorPos - 1
        /\ (pc = "edit" /\ pc' = "edit" /\ btnVal' = btnR) =>
             currentCursorPos' =
               IF currentCursorPos = NumDigits(currentMenuItem) - 1
                 THEN currentCursorPos ELSE currentCursorPos + 1
        /\ (pc = "edit" /\ pc' = "edit" /\ btnVal' \notin {btnL, btnR}) =>
             currentCursorPos' = currentCursorPos]_vars

\* Right was clicked four times in the 4-digit distance editor
C17_Witness ==
  /\ pc = "edit" /\ currentMenuItem = MENU_ITEM_DISTANCE
  /\ clicks = 5 /\ btnVal = btnR
  /\ currentCursorPos = NUM_DISTANCE_DIGITS - 1
  /\ LCDLine2Value = <<0, 1, 0, 0, 0, 0>> /\ currentChar = 0

\* C18: during a run over a distance above 0 the counter never exceeds
\* totalMotorSteps.
C18_NoOvershoot ==
  (pc \in RunPcs /\ totalMotorSteps > 0) => currentStep <= totalMotorSteps

\* base-10 value of a digit array, most significant digit first
Decode(d) ==
  LET value[i \in 0..Len(d)] == IF i = 0 THEN 0 ELSE 10 * value[i - 1] + d[i]
  IN  value[Len(d)]

\* C19: at the top level of the menu each committed value is the base-10
\* value of its digit array.
C19_DigitsMatchCommitted ==
  pc = "top" =>
    /\ currentDistanceInt = Decode(currentDistance)
    /\ currentDurationInt = Decode(currentDuration)
    /\ currentStepsInt = Decode(currentSteps)

\* C20: dotDistance is at least 1 whenever line 253 evaluates
\* currentStep % dotDistance, for a run over a distance above 0.
C20_DotDivisorNonZero ==
  (pc = "dot" /\ currentDistanceInt > 0) => dotDistance >= 1

====
